---- MODULE Spec2Model ----
(***************************************************************************)
(* Camera acquisition and frame delivery of the PyQt ANPR application.     *)
(*                                                                         *)
(* camera_thread.py      CameraThread (a QThread): start_streaming,        *)
(*                       stop_streaming, run, get_available_cameras        *)
(* ANPR_GUI_Complete.py  ANPRProcessor: start_stream, stop_stream and the  *)
(*                       slots connected to the thread's signals           *)
(*                       ANPRMainWindow: toggle_stream, show_camera_error, *)
(*                       scan_and_update_cameras                           *)
(*                                                                         *)
(* Two threads act.  The caller thread (the GUI thread) runs start_stream, *)
(* stop_stream and, from its event loop, the slots.  The acquisition       *)
(* thread runs CameraThread.run.  A signal emitted by the acquisition      *)
(* thread reaches its slot through a queued connection: the emission posts *)
(* an event to the caller thread's event queue and the slot runs when the  *)
(* event loop takes it.  A signal emitted by the caller thread itself runs *)
(* its slot at once.  The window's error slot opens a modal message box,  *)
(* whose own event loop takes posted events until the box is closed.       *)
(*                                                                         *)
(* A cv2.VideoCapture is closed by release(), or by its destructor when    *)
(* the last reference to it goes away (CPython counts references, and      *)
(* self.cap is the only lasting reference to a capture).                   *)
(*                                                                         *)
(* Spec     the ANPRProcessor: every CameraThread is made by start_stream  *)
(* SpecApi  one CameraThread driven by any sequence of start_streaming and *)
(*          stop_streaming calls of one caller thread                      *)
(* SpecLive SpecApi on a source that may never run dry, with the threads   *)
(*          scheduled fairly                                               *)
(* SpecScan get_available_cameras alone                                    *)
(* SpecUi   the window: its handlers call start_stream, stop_stream and    *)
(*          get_available_cameras                                          *)
(***************************************************************************)
EXTENDS Naturals, Sequences, FiniteSets

\* Bounds of the model.
MaxObjs ==
    2
MaxCaps ==
    3
MaxFrames ==
    2
MaxDevices ==
    1
\* get_available_cameras probes the indices 0 .. ProbeRange - 1.
ProbeRange ==
    10
\* Python's None, for a reference to an object (objects are numbered from 1).
None ==
    0

VARIABLES
    camera_thread,  \* ANPRProcessor.camera_thread: None or a CameraThread
    running,        \* CameraThread.running, per object
    cap,            \* CameraThread.cap, per object: None or a VideoCapture
    connected,      \* whether the slots are connected to the signals, per object
    tstate,         \* QThread state, per object: notstarted, running, finished
    tpc,            \* position of run(), per object
    exitwhy,        \* why the loop of run() was left, per object
    ret,            \* what the last start_streaming call did, per object
    caps,           \* the cv2.VideoCapture objects created so far
    queue,          \* events posted to the caller thread, oldest first
    delivered,      \* the slots that have run, oldest first
    gpc,            \* position of the caller thread
    gobj,           \* the CameraThread the caller thread is working on
    gctx,           \* the method that called start_streaming/stop_streaming
    gheld,          \* cap of gobj when stop_streaming was entered
    stopped,        \* the stop_streaming calls that have returned: on which
                    \* CameraThread, called by which method
    start_ok,       \* return value of the last start_stream call
    si,             \* get_available_cameras: the loop variable i
    probes,         \* get_available_cameras: the captures it has created
    found,          \* get_available_cameras: the list available_cameras
    is_streaming,   \* ANPRMainWindow.is_streaming
    checked,        \* stream_button.isChecked()
    text,           \* stream_button.text()
    led,            \* colour of led_indicator
    enabled,        \* stream_button.isEnabled()
    gui,            \* the window's handler the caller thread is inside
    handle_error,   \* ANPRProcessor.handle_error: the method it refers to
    dialogs         \* the message boxes of show_camera_error that are open

objvars ==
    <<running, cap, connected, tstate, tpc, exitwhy, ret>>
sigvars ==
    <<queue, delivered>>
gvars ==
    <<gpc, gobj, gctx, gheld>>
scanvars ==
    <<si, probes, found>>
widgets ==
    <<is_streaming, checked, text, led, enabled>>
winvars ==
    <<widgets, gui, handle_error, dialogs>>
vars ==
    <<camera_thread, objvars, caps, sigvars, gvars, stopped, start_ok,
      scanvars, winvars>>

\* The CameraThread objects constructed so far.
Objects ==
    DOMAIN running

\* QThread.isRunning()
isRunning(o) ==
    tstate[o] = "running"

\* cv2.VideoCapture.isOpened()
isOpened(h) ==
    caps[h].open

\* cv2.VideoCapture.release(): closes the source; rel counts the calls.
Release(h) ==
    [caps EXCEPT ![h].open = FALSE, ![h].rel = @ + 1]

\* The reference self.cap of a CameraThread is overwritten while it refers
\* to h: the capture has no reference left and its destructor closes it.
\* This is no release() call.
Drop(h) ==
    IF h # None THEN [caps EXCEPT ![h].open = FALSE] ELSE caps

\* cv2.VideoCapture(source): a new capture object; ok tells whether the
\* source could be opened.
NewCapture(o, ok) ==
    [owner |-> o, ok |-> ok, open |-> ok, rel |-> 0, nread |-> 0]

\* Notifications of CameraThread o: frame_ready_raw with the n-th frame of
\* its source, and error_occurred.
FrameEv(o, n) ==
    [o |-> o, kind |-> "frame", n |-> n]
ErrorEv(o) ==
    [o |-> o, kind |-> "error", n |-> 0]

\* The CameraThreads whose stop_streaming has returned.
StoppedObjs ==
    {r.o : r \in stopped}

\* The record of a slot run for notification ev: late tells that
\* stop_streaming of the emitting CameraThread had returned before the
\* slot ran, direct that the slot ran inside the emit call.
SlotRun(ev, direct) ==
    [o |-> ev.o, kind |-> ev.kind, n |-> ev.n,
     late |-> ev.o \in StoppedObjs, direct |-> direct]

\* EmitQueued with the slot connected twice: the event is posted twice.
EmitQueuedTwice(ev) ==
    /\ queue' = IF connected[ev.o] THEN Append(Append(queue, ev), ev) ELSE queue
    /\ UNCHANGED delivered

\* emit from the acquisition thread: the connection is a queued one, the
\* event is posted.  A signal nothing is connected to does nothing.
EmitQueued(ev) ==
    /\ queue' = IF connected[ev.o] THEN Append(queue, ev) ELSE queue
    /\ UNCHANGED delivered

\* show_camera_error, lines 624-632, once the message box of line 623 is
\* closed: the button is unchecked and the widgets are set to the stopped
\* state.  When setChecked(False) changes the button it emits toggled, so
\* toggle_stream(False) runs inside it (lines 481-492): it writes the same
\* values.
ShowCameraError ==
    /\ checked' = FALSE
    /\ text' = "Start Camera"
    /\ led' = "red"
    /\ is_streaming' = FALSE
    /\ UNCHANGED enabled

\* emit from the caller thread: the slot is entered inside emit.
EmitDirect(ev) ==
    /\ delivered' = IF connected[ev.o]
                    THEN Append(delivered, SlotRun(ev, TRUE))
                    ELSE delivered
    /\ UNCHANGED queue

\* get_available_cameras has not been called.
NoScan ==
    /\ si = 0
    /\ probes = <<>>
    /\ found = <<>>

\* There is no window: handle_error of the ANPRProcessor is its own method
\* (lines 257-259, a print), and the widgets play no part.
NoWindow ==
    /\ is_streaming = FALSE
    /\ checked = FALSE
    /\ text = "Start Camera"
    /\ led = "red"
    /\ enabled = TRUE
    /\ gui = "none"
    /\ handle_error = "handle_error"
    /\ dialogs = 0

Init ==
    /\ camera_thread = None
    /\ running = <<>>
    /\ cap = <<>>
    /\ connected = <<>>
    /\ tstate = <<>>
    /\ tpc = <<>>
    /\ exitwhy = <<>>
    /\ ret = <<>>
    /\ caps = <<>>
    /\ queue = <<>>
    /\ delivered = <<>>
    /\ gpc = "idle"
    /\ gobj = None
    /\ gctx = "none"
    /\ gheld = None
    /\ stopped = {}
    /\ start_ok = "none"
    /\ NoScan
    /\ NoWindow

----------------------------------------------------------------------------
\* CameraThread.stop_streaming

\* stop_streaming is called on o: line 47 clears the flag, line 48 waits.
StopStreamingCall(o) ==
    /\ running' = [running EXCEPT ![o] = FALSE]
    /\ gobj' = o
    /\ gheld' = cap[o]
    /\ gpc' = "st_wait"

\* StopWait without line 48: stop_streaming does not wait for the thread.
StopWaitNoWait ==
    /\ gpc = "st_wait"
    /\ caps' = IF cap[gobj] # None THEN Release(cap[gobj]) ELSE caps
    /\ cap' = [cap EXCEPT ![gobj] = None]
    /\ stopped' = stopped \cup {[o |-> gobj, by |-> gctx]}
    /\ gpc' = "st_ret"
    /\ UNCHANGED <<camera_thread, running, connected, tstate, tpc, exitwhy, ret,
                   sigvars, gobj, gctx, gheld, start_ok, scanvars, winvars>>

\* StopWait without the test of line 49: release() is called through
\* self.cap also when it is None, which raises an AttributeError.
StopWaitUnguarded ==
    /\ gpc = "st_wait"
    /\ ~isRunning(gobj)
    /\ caps' = IF cap[gobj] # None THEN Release(cap[gobj]) ELSE caps
    /\ ret' = IF cap[gobj] # None THEN ret ELSE [ret EXCEPT ![gobj] = "raised"]
    /\ cap' = [cap EXCEPT ![gobj] = None]
    /\ stopped' = stopped \cup {[o |-> gobj, by |-> gctx]}
    /\ gpc' = "st_ret"
    /\ UNCHANGED <<camera_thread, running, connected, tstate, tpc, exitwhy,
                   sigvars, gobj, gctx, gheld, start_ok, scanvars, winvars>>

\* wait() has returned because the thread is not running; lines 49-51
\* release the capture that is still referenced, and stop_streaming returns.
StopWait ==
    /\ gpc = "st_wait"
    /\ ~isRunning(gobj)
    /\ caps' = IF cap[gobj] # None THEN Release(cap[gobj]) ELSE caps
    /\ cap' = [cap EXCEPT ![gobj] = None]
    /\ stopped' = stopped \cup {[o |-> gobj, by |-> gctx]}
    /\ gpc' = "st_ret"
    /\ UNCHANGED <<camera_thread, running, connected, tstate, tpc, exitwhy, ret,
                   sigvars, gobj, gctx, gheld, start_ok, scanvars, winvars>>

\* Back in the caller of stop_streaming: start_stream line 209 goes on to
\* make the new thread, stop_stream line 224 returns, a direct call returns.
StopReturn ==
    /\ gpc = "st_ret"
    /\ camera_thread' = IF gctx = "api" THEN camera_thread ELSE None
    /\ gpc' = IF gctx = "start_stream" THEN "new" ELSE "idle"
    /\ gctx' = IF gctx = "stop_stream" THEN "none" ELSE gctx
    /\ UNCHANGED <<objvars, caps, sigvars, gobj, gheld, stopped, start_ok, scanvars, winvars>>

----------------------------------------------------------------------------
\* CameraThread.start_streaming

\* start_streaming ends with result v ("True", "False", or "raised" for an
\* exception).  start_stream ignores the result and returns True (line 215),
\* or False when an exception was caught (lines 216-218).
Return(v) ==
    /\ ret' = [ret EXCEPT ![gobj] = v]
    /\ gpc' = "idle"
    /\ gctx' = IF gctx = "start_stream" THEN "none" ELSE gctx
    /\ start_ok' = IF gctx = "start_stream"
                   THEN (IF v = "raised" THEN "False" ELSE "True")
                   ELSE start_ok
    /\ UNCHANGED <<scanvars, gui, handle_error>>

\* line 30
SsCheck ==
    /\ gpc = "ss_check"
    /\ gpc' = IF cap[gobj] # None THEN "ss_release" ELSE "ss_open"
    /\ UNCHANGED <<camera_thread, objvars, caps, sigvars, gobj, gctx, gheld, stopped, start_ok, scanvars, winvars>>

\* SsRelease without the release() call of line 31.
SsReleaseSkipped ==
    /\ gpc = "ss_release"
    /\ gpc' = "ss_open"
    /\ UNCHANGED <<camera_thread, objvars, caps, sigvars, gobj, gctx, gheld,
                   stopped, start_ok, scanvars, winvars>>

\* line 31: self.cap is read again; None here is an AttributeError.
SsRelease ==
    /\ gpc = "ss_release"
    /\ IF cap[gobj] = None
       THEN /\ Return("raised")
            /\ UNCHANGED <<caps, widgets, dialogs>>
       ELSE /\ caps' = Release(cap[gobj])
            /\ gpc' = "ss_open"
            /\ UNCHANGED <<ret, gctx, start_ok, scanvars, winvars>>
    /\ UNCHANGED <<camera_thread, running, cap, connected, tstate, tpc, exitwhy,
                   sigvars, gobj, gheld, stopped>>

\* line 32, right-hand side: cv2.VideoCapture(self.source) opens the source
\* or fails to.
SsOpen ==
    /\ gpc = "ss_open"
    /\ \E ok \in BOOLEAN :
          caps' = Append(caps, NewCapture(gobj, ok))
    /\ gpc' = "ss_assign"
    /\ UNCHANGED <<camera_thread, objvars, sigvars, gobj, gctx, gheld, stopped,
                   start_ok, scanvars, winvars>>

\* line 32, the assignment: self.cap refers to the new capture, the newest
\* one, and no longer to the one it referred to.
SsAssign ==
    /\ gpc = "ss_assign"
    /\ cap' = [cap EXCEPT ![gobj] = Len(caps)]
    /\ caps' = Drop(cap[gobj])
    /\ gpc' = "ss_isopened"
    /\ UNCHANGED <<camera_thread, running, connected, tstate, tpc, exitwhy, ret,
                   sigvars, gobj, gctx, gheld, stopped, start_ok, scanvars, winvars>>

\* SsIsOpened without the test of line 33: start_streaming goes on to start
\* the thread whether or not the source is open.
SsIsOpenedUnchecked ==
    /\ gpc = "ss_isopened"
    /\ IF cap[gobj] = None
       THEN /\ Return("raised")
            /\ UNCHANGED <<widgets, dialogs>>
       ELSE /\ gpc' = "ss_set"
            /\ UNCHANGED <<ret, gctx, start_ok, scanvars, winvars>>
    /\ UNCHANGED <<camera_thread, running, cap, connected, tstate, tpc, exitwhy,
                   caps, sigvars, gobj, gheld, stopped>>

\* SsIsOpened without the emit of line 35: a failed open only returns False.
SsIsOpenedSilent ==
    /\ gpc = "ss_isopened"
    /\ IF cap[gobj] = None
       THEN /\ Return("raised")
            /\ UNCHANGED <<widgets, dialogs>>
       ELSE IF ~isOpened(cap[gobj])
       THEN /\ Return("False")
            /\ UNCHANGED <<widgets, dialogs>>
       ELSE /\ gpc' = "ss_set"
            /\ UNCHANGED <<ret, gctx, start_ok, scanvars, winvars>>
    /\ UNCHANGED <<camera_thread, running, cap, connected, tstate, tpc, exitwhy,
                   caps, sigvars, gobj, gheld, stopped>>

\* lines 33-36: a capture that is not open makes start_streaming emit
\* error_occurred, from the caller thread, and return False.  The slot is
\* what handle_error referred to at line 213: the print of lines 257-259
\* returns at once; show_camera_error opens its message box (line 623) and
\* the emit returns only when that is closed (DialogClose).
SsIsOpened ==
    /\ gpc = "ss_isopened"
    /\ IF cap[gobj] = None
       THEN /\ Return("raised")
            /\ UNCHANGED <<sigvars, widgets, dialogs>>
       ELSE IF ~isOpened(cap[gobj])
       THEN /\ EmitDirect(ErrorEv(gobj))
            /\ IF connected[gobj] /\ handle_error = "show_camera_error"
               THEN /\ gpc' = "dialog"
                    /\ dialogs' = dialogs + 1
                    /\ UNCHANGED <<ret, gctx, start_ok, scanvars, widgets,
                                   gui, handle_error>>
               ELSE /\ Return("False")
                    /\ UNCHANGED <<widgets, dialogs>>
       ELSE /\ gpc' = "ss_set"
            /\ UNCHANGED <<ret, gctx, start_ok, sigvars, scanvars, winvars>>
    /\ UNCHANGED <<camera_thread, running, cap, connected, tstate, tpc, exitwhy,
                   caps, gobj, gheld, stopped>>

\* lines 38-41: the properties are set on self.cap, then the flag is set.
SsSet ==
    /\ gpc = "ss_set"
    /\ IF cap[gobj] = None
       THEN /\ Return("raised")
            /\ UNCHANGED <<running, widgets, dialogs>>
       ELSE /\ running' = [running EXCEPT ![gobj] = TRUE]
            /\ gpc' = "ss_start"
            /\ UNCHANGED <<ret, gctx, start_ok, scanvars, winvars>>
    /\ UNCHANGED <<camera_thread, cap, connected, tstate, tpc, exitwhy,
                   caps, sigvars, gobj, gheld, stopped>>

\* lines 42-43: QThread.start() begins run() unless the thread is running.
SsStart ==
    /\ gpc = "ss_start"
    /\ IF isRunning(gobj)
       THEN UNCHANGED <<tstate, tpc, exitwhy>>
       ELSE /\ tstate' = [tstate EXCEPT ![gobj] = "running"]
            /\ tpc' = [tpc EXCEPT ![gobj] = "loop"]
            /\ exitwhy' = [exitwhy EXCEPT ![gobj] = "none"]
    /\ Return("True")
    /\ UNCHANGED <<camera_thread, running, cap, connected, caps, sigvars, gobj,
                   gheld, stopped, widgets, dialogs>>

----------------------------------------------------------------------------
\* CameraThread.run, on the acquisition thread of o

\* Loop without the test of self.running in line 55.
LoopNoFlag(o) ==
    /\ isRunning(o)
    /\ tpc[o] = "loop"
    /\ IF cap[o] # None
       THEN /\ tpc' = [tpc EXCEPT ![o] = "read"]
            /\ UNCHANGED exitwhy
       ELSE /\ tpc' = [tpc EXCEPT ![o] = "tail"]
            /\ exitwhy' = [exitwhy EXCEPT ![o] = "nocap"]
    /\ UNCHANGED <<camera_thread, running, cap, connected, tstate, ret, caps,
                   sigvars, gvars, stopped, start_ok, scanvars, winvars>>

\* line 55
Loop(o) ==
    /\ isRunning(o)
    /\ tpc[o] = "loop"
    /\ IF running[o] /\ cap[o] # None
       THEN /\ tpc' = [tpc EXCEPT ![o] = "read"]
            /\ UNCHANGED exitwhy
       ELSE /\ tpc' = [tpc EXCEPT ![o] = "tail"]
            /\ exitwhy' = [exitwhy EXCEPT ![o] =
                              IF running[o] THEN "nocap" ELSE "stop"]
    /\ UNCHANGED <<camera_thread, running, cap, connected, tstate, ret, caps,
                   sigvars, gvars, stopped, start_ok, scanvars, winvars>>

\* Read without the break of line 60: after a failed read the loop goes on.
ReadNoBreak(o) ==
    /\ isRunning(o)
    /\ tpc[o] = "read"
    /\ cap[o] # None
    /\ LET h == cap[o] IN
       \E got \in BOOLEAN :
          /\ got => (isOpened(h) /\ caps[h].nread < MaxFrames)
          /\ IF got
             THEN /\ caps' = [caps EXCEPT ![h].nread = @ + 1]
                  /\ EmitQueued(FrameEv(o, caps[h].nread + 1))
                  /\ UNCHANGED exitwhy
             ELSE /\ EmitQueued(ErrorEv(o))
                  /\ exitwhy' = [exitwhy EXCEPT ![o] = "error"]
                  /\ UNCHANGED caps
    /\ tpc' = [tpc EXCEPT ![o] = "loop"]
    /\ UNCHANGED <<camera_thread, running, cap, connected, tstate, ret,
                   gvars, stopped, start_ok, scanvars, winvars>>

\* lines 56-69: a read of a capture that is not open fails; a read of an
\* open one yields the next frame or fails (the frames of a source are
\* counted up to MaxFrames).  A failed read emits error_occurred and leaves
\* the loop, a frame is emitted as frame_ready_raw.
Read(o) ==
    /\ isRunning(o)
    /\ tpc[o] = "read"
    /\ cap[o] # None
    /\ LET h == cap[o] IN
       \E got \in BOOLEAN :
          /\ got => (isOpened(h) /\ caps[h].nread < MaxFrames)
          /\ IF got
             THEN /\ caps' = [caps EXCEPT ![h].nread = @ + 1]
                  /\ EmitQueued(FrameEv(o, caps[h].nread + 1))
                  /\ tpc' = [tpc EXCEPT ![o] = "loop"]
                  /\ UNCHANGED exitwhy
             ELSE /\ EmitQueued(ErrorEv(o))
                  /\ exitwhy' = [exitwhy EXCEPT ![o] = "error"]
                  /\ tpc' = [tpc EXCEPT ![o] = "tail"]
                  /\ UNCHANGED caps
    /\ UNCHANGED <<camera_thread, running, cap, connected, tstate, ret,
                   gvars, stopped, start_ok, scanvars, winvars>>

\* lines 56-69 on a source that yields frames without end: a read that
\* yields one more frame after the MaxFrames frames that are counted.
\* Nothing is connected to frame_ready_raw, so the emit posts nothing.
ReadOn(o) ==
    /\ isRunning(o)
    /\ tpc[o] = "read"
    /\ cap[o] # None
    /\ isOpened(cap[o])
    /\ caps[cap[o]].nread = MaxFrames
    /\ ~connected[o]
    /\ tpc' = [tpc EXCEPT ![o] = "loop"]
    /\ UNCHANGED <<camera_thread, running, cap, connected, tstate, exitwhy, ret,
                   caps, sigvars, gvars, stopped, start_ok, scanvars, winvars>>

\* lines 71-72
ReleaseAtExit(o) ==
    /\ isRunning(o)
    /\ tpc[o] = "tail"
    /\ IF cap[o] # None
       THEN /\ caps' = Release(cap[o])
            /\ tpc' = [tpc EXCEPT ![o] = "clear"]
       ELSE /\ tpc' = [tpc EXCEPT ![o] = "exit"]
            /\ UNCHANGED caps
    /\ UNCHANGED <<camera_thread, running, cap, connected, tstate, exitwhy, ret,
                   sigvars, gvars, stopped, start_ok, scanvars, winvars>>

\* line 73: self.cap = None.  The capture it referred to is the one line 72
\* released, unless start_streaming has assigned a new one in between.
Clear(o) ==
    /\ isRunning(o)
    /\ tpc[o] = "clear"
    /\ cap' = [cap EXCEPT ![o] = None]
    /\ caps' = Drop(cap[o])
    /\ tpc' = [tpc EXCEPT ![o] = "exit"]
    /\ UNCHANGED <<camera_thread, running, connected, tstate, exitwhy, ret,
                   sigvars, gvars, stopped, start_ok, scanvars, winvars>>

\* run() has returned: the thread has finished, isRunning() is False.
Exit(o) ==
    /\ isRunning(o)
    /\ tpc[o] = "exit"
    /\ tstate' = [tstate EXCEPT ![o] = "finished"]
    /\ tpc' = [tpc EXCEPT ![o] = "none"]
    /\ UNCHANGED <<camera_thread, running, cap, connected, exitwhy, ret, caps,
                   sigvars, gvars, stopped, start_ok, scanvars, winvars>>

----------------------------------------------------------------------------
\* ANPRProcessor

\* start_stream without lines 207-209: the running thread is not stopped.
StartStreamNoStop ==
    /\ gpc = "idle"
    /\ Len(running) < MaxObjs
    /\ gctx' = "start_stream"
    /\ gpc' = "new"
    /\ UNCHANGED <<camera_thread, objvars, caps, sigvars, gobj, gheld, stopped,
                   start_ok, scanvars, winvars>>

\* start_stream, lines 203-209: a thread that is still running is stopped.
StartStreamCall ==
    /\ gpc = "idle"
    /\ Len(running) < MaxObjs
    /\ gctx' = "start_stream"
    /\ IF camera_thread # None /\ isRunning(camera_thread)
       THEN StopStreamingCall(camera_thread)
       ELSE /\ gpc' = "new"
            /\ UNCHANGED <<running, gobj, gheld>>
    /\ UNCHANGED <<camera_thread, cap, connected, tstate, tpc, exitwhy, ret, caps,
                   sigvars, stopped, start_ok>>

\* a call of start_stream
StartStream ==
    /\ StartStreamCall
    /\ UNCHANGED <<scanvars, winvars>>

\* start_stream, lines 210-214: a new CameraThread (__init__, lines 15-22),
\* the two connections, and the call of start_streaming.
NewThread ==
    /\ gpc = "new"
    /\ running' = Append(running, FALSE)
    /\ cap' = Append(cap, None)
    /\ connected' = Append(connected, TRUE)
    /\ tstate' = Append(tstate, "notstarted")
    /\ tpc' = Append(tpc, "none")
    /\ exitwhy' = Append(exitwhy, "none")
    /\ ret' = Append(ret, "none")
    /\ camera_thread' = Len(running) + 1
    /\ gobj' = Len(running) + 1
    /\ gpc' = "ss_check"
    /\ UNCHANGED <<caps, sigvars, gctx, gheld, stopped, start_ok, scanvars, winvars>>

\* stop_stream, lines 220-224
StopStreamCall ==
    /\ gpc = "idle"
    /\ IF camera_thread # None /\ isRunning(camera_thread)
       THEN /\ StopStreamingCall(camera_thread)
            /\ gctx' = "stop_stream"
       ELSE UNCHANGED <<running, gobj, gheld, gpc, gctx>>
    /\ UNCHANGED <<camera_thread, cap, connected, tstate, tpc, exitwhy, ret, caps,
                   stopped, start_ok>>

\* a call of stop_stream
StopStream ==
    /\ StopStreamCall
    /\ UNCHANGED <<sigvars, scanvars, winvars>>

\* Deliver taking the newest posted event instead of the oldest.
DeliverNewest ==
    /\ gpc = "idle"
    /\ queue # <<>>
    /\ delivered' = Append(delivered, SlotRun(queue[Len(queue)], FALSE))
    /\ queue' = SubSeq(queue, 1, Len(queue) - 1)
    /\ UNCHANGED <<camera_thread, objvars, caps, gvars, stopped, start_ok, scanvars, winvars>>

\* The event loop of the caller thread takes the oldest posted event and
\* runs its slot (process_frame, lines 231-240, or the error handler).
Deliver ==
    /\ gpc = "idle"
    /\ queue # <<>>
    /\ delivered' = Append(delivered, SlotRun(Head(queue), FALSE))
    /\ queue' = Tail(queue)
    /\ UNCHANGED <<camera_thread, objvars, caps, gvars, stopped, start_ok, scanvars, winvars>>

----------------------------------------------------------------------------
\* A caller that uses one CameraThread directly; nothing is connected to
\* its signals.

InitApi ==
    /\ camera_thread = None
    /\ running = <<FALSE>>
    /\ cap = <<None>>
    /\ connected = <<FALSE>>
    /\ tstate = <<"notstarted">>
    /\ tpc = <<"none">>
    /\ exitwhy = <<"none">>
    /\ ret = <<"none">>
    /\ caps = <<>>
    /\ queue = <<>>
    /\ delivered = <<>>
    /\ gpc = "idle"
    /\ gobj = 1
    /\ gctx = "api"
    /\ gheld = None
    /\ stopped = {}
    /\ start_ok = "none"
    /\ NoScan
    /\ NoWindow

\* a call of start_streaming
ApiStartStreaming ==
    /\ gpc = "idle"
    /\ Len(caps) < MaxCaps
    /\ gpc' = "ss_check"
    /\ UNCHANGED <<camera_thread, objvars, caps, sigvars, gobj, gctx, gheld, stopped, start_ok, scanvars, winvars>>

\* a call of stop_streaming
ApiStopStreaming ==
    /\ gpc = "idle"
    /\ StopStreamingCall(gobj)
    /\ UNCHANGED <<camera_thread, cap, connected, tstate, tpc, exitwhy, ret, caps,
                   sigvars, gctx, stopped, start_ok, scanvars, winvars>>

----------------------------------------------------------------------------
\* CameraThread.get_available_cameras, lines 75-83, on the caller thread

\* The local name cap is bound to another capture, or the function returns:
\* the last probe capture has no reference left and its destructor closes
\* it.  This is no release() call.
DropProbe(ps) ==
    IF ps = <<>> THEN ps ELSE [ps EXCEPT ![Len(ps)].open = FALSE]

\* lines 77-78: the call, the empty list, the first value of i
GetAvailableCameras ==
    /\ gpc = "idle"
    /\ si' = 0
    /\ probes' = <<>>
    /\ found' = <<>>
    /\ gpc' = "sc_open"

\* line 79: cap = cv2.VideoCapture(i).  Only the devices 0 .. limit - 1
\* exist; the open of a device that exists succeeds or fails.
ScanOpen(limit) ==
    /\ gpc = "sc_open"
    /\ \E ok \in BOOLEAN :
          /\ ok => si < limit
          /\ probes' = Append(DropProbe(probes),
                              [index |-> si, ok |-> ok, open |-> ok, rel |-> 0])
    /\ gpc' = "sc_check"
    /\ UNCHANGED <<camera_thread, objvars, caps, sigvars, gobj, gctx, gheld,
                   stopped, start_ok, si, found, winvars>>

\* ScanCheck without line 82: the probe is recorded and not released.
ScanCheckNoRelease ==
    /\ gpc = "sc_check"
    /\ found' = IF probes[Len(probes)].open THEN Append(found, si) ELSE found
    /\ si' = si + 1
    /\ gpc' = IF si + 1 < ProbeRange THEN "sc_open" ELSE "sc_ret"
    /\ UNCHANGED <<camera_thread, objvars, caps, sigvars, gobj, gctx, gheld,
                   stopped, start_ok, probes, winvars>>

\* ScanCheck with insert(0, i) for append(i) in line 81.
ScanCheckPrepend ==
    /\ gpc = "sc_check"
    /\ LET h == Len(probes) IN
       IF probes[h].open
       THEN /\ found' = <<si>> \o found
            /\ probes' = [probes EXCEPT ![h].open = FALSE, ![h].rel = @ + 1]
       ELSE UNCHANGED <<found, probes>>
    /\ si' = si + 1
    /\ gpc' = IF si + 1 < ProbeRange THEN "sc_open" ELSE "sc_ret"
    /\ UNCHANGED <<camera_thread, objvars, caps, sigvars, gobj, gctx, gheld,
                   stopped, start_ok, winvars>>

\* lines 80-82 and the step of the loop: a probe that opened is recorded and
\* released; then the next index, or the end of range(10).
ScanCheck ==
    /\ gpc = "sc_check"
    /\ LET h == Len(probes) IN
       IF probes[h].open
       THEN /\ found' = Append(found, si)
            /\ probes' = [probes EXCEPT ![h].open = FALSE, ![h].rel = @ + 1]
       ELSE UNCHANGED <<found, probes>>
    /\ si' = si + 1
    /\ gpc' = IF si + 1 < ProbeRange THEN "sc_open" ELSE "sc_ret"
    /\ UNCHANGED <<camera_thread, objvars, caps, sigvars, gobj, gctx, gheld,
                   stopped, start_ok, winvars>>

\* line 83: the list is returned to a caller that keeps it.
ScanReturn ==
    /\ gpc = "sc_ret"
    /\ probes' = DropProbe(probes)
    /\ gpc' = "idle"
    /\ UNCHANGED <<camera_thread, objvars, caps, sigvars, gobj, gctx, gheld,
                   stopped, start_ok, si, found, winvars>>

\* a call of get_available_cameras
ApiGetAvailableCameras ==
    /\ GetAvailableCameras
    /\ UNCHANGED <<camera_thread, objvars, caps, sigvars, gobj, gctx, gheld,
                   stopped, start_ok, winvars>>

----------------------------------------------------------------------------
\* ANPRMainWindow.  Its handlers run on the caller thread, one at a time:
\* a click or a posted event is taken when the thread is idle and inside no
\* handler.  The one exception is the message box of show_camera_error
\* (line 623): while it is open its own event loop takes posted events, and
\* being modal it keeps clicks from the window.

\* __init__, lines 265-280: the widgets as setup_ui makes them, the
\* ANPRProcessor with handle_error replaced (line 465), and the call of
\* scan_and_update_cameras of line 280 under way.
InitUi ==
    /\ camera_thread = None
    /\ running = <<>>
    /\ cap = <<>>
    /\ connected = <<>>
    /\ tstate = <<>>
    /\ tpc = <<>>
    /\ exitwhy = <<>>
    /\ ret = <<>>
    /\ caps = <<>>
    /\ queue = <<>>
    /\ delivered = <<>>
    /\ gpc = "sc_open"
    /\ gobj = None
    /\ gctx = "none"
    /\ gheld = None
    /\ stopped = {}
    /\ start_ok = "none"
    /\ NoScan
    /\ is_streaming = FALSE
    /\ checked = FALSE
    /\ text = "Start Camera"
    /\ led = "red"
    /\ enabled = TRUE
    /\ gui = "scan"
    /\ handle_error = "show_camera_error"
    /\ dialogs = 0

\* The refresh button is clicked: scan_and_update_cameras, line 606, calls
\* get_available_cameras.
ScanAndUpdateCameras ==
    /\ gui = "none"
    /\ GetAvailableCameras
    /\ gui' = "scan"
    /\ UNCHANGED <<camera_thread, objvars, caps, sigvars, gobj, gctx, gheld,
                   stopped, start_ok, widgets, handle_error, dialogs>>

\* scan_and_update_cameras, lines 606-619: get_available_cameras has
\* returned; the list fills the combo box and the stream button is enabled
\* when the list is not empty, disabled when it is.
ScanUpdate ==
    /\ gpc = "sc_ret"
    /\ gui = "scan"
    /\ probes' = DropProbe(probes)
    /\ enabled' = (found # <<>>)
    /\ gpc' = "idle"
    /\ gui' = "none"
    /\ UNCHANGED <<camera_thread, objvars, caps, sigvars, gobj, gctx, gheld,
                   stopped, start_ok, si, found, is_streaming, checked, text,
                   led, handle_error, dialogs>>

\* The stream button is clicked while unchecked: it becomes checked and
\* toggle_stream(True) calls start_stream, lines 471-472.
ToggleOn ==
    /\ gui = "none"
    /\ enabled
    /\ ~checked
    /\ checked' = TRUE
    /\ gui' = "toggle_on"
    /\ StartStreamCall
    /\ UNCHANGED <<sigvars, scanvars, is_streaming, text, led, enabled,
                   handle_error, dialogs>>

\* toggle_stream(True), lines 472-479, with the result of start_stream.  In
\* the else branch setChecked(False) on the checked button runs toggle_stream
\* (False), whose stop_stream finds no running thread.
ToggleOnReturn ==
    /\ gpc = "idle"
    /\ gui = "toggle_on"
    /\ IF start_ok = "True"
       THEN /\ is_streaming' = TRUE
            /\ text' = "Stop Camera"
            /\ led' = "green"
            /\ UNCHANGED checked
       ELSE /\ checked' = FALSE
            /\ is_streaming' = IF checked THEN FALSE ELSE is_streaming
            /\ text' = IF checked THEN "Start Camera" ELSE text
            /\ led' = IF checked THEN "red" ELSE led
    /\ gui' = "none"
    /\ UNCHANGED <<camera_thread, objvars, caps, sigvars, gvars, stopped,
                   start_ok, scanvars, enabled, handle_error, dialogs>>

\* The stream button is clicked while checked: it becomes unchecked and
\* toggle_stream(False) calls stop_stream, lines 481-483.
ToggleOff ==
    /\ gui = "none"
    /\ enabled
    /\ checked
    /\ checked' = FALSE
    /\ gui' = "toggle_off"
    /\ StopStreamCall
    /\ UNCHANGED <<sigvars, scanvars, is_streaming, text, led, enabled,
                   handle_error, dialogs>>

\* toggle_stream(False), lines 484-492, after stop_stream has returned.
ToggleOffReturn ==
    /\ gpc = "idle"
    /\ gui = "toggle_off"
    /\ is_streaming' = FALSE
    /\ text' = "Start Camera"
    /\ led' = "red"
    /\ gui' = "none"
    /\ UNCHANGED <<camera_thread, objvars, caps, sigvars, gvars, stopped,
                   start_ok, scanvars, checked, enabled, handle_error, dialogs>>

\* The event loop takes the oldest posted event and runs its slot.  A frame
\* goes to process_frame (lines 231-240).  An error goes to
\* show_camera_error, which opens its message box (line 623).
DeliverWin ==
    /\ gpc = "idle"
    /\ gui = "none"
    /\ queue # <<>>
    /\ delivered' = Append(delivered, SlotRun(Head(queue), FALSE))
    /\ queue' = Tail(queue)
    /\ IF Head(queue).kind = "error"
       THEN /\ gpc' = "dialog"
            /\ gui' = "show_camera_error"
            /\ dialogs' = dialogs + 1
       ELSE UNCHANGED <<gpc, gui, dialogs>>
    /\ UNCHANGED <<camera_thread, objvars, caps, gobj, gctx, gheld, stopped,
                   start_ok, scanvars, widgets, handle_error>>

\* QMessageBox.critical, line 623: the message box is modal and runs an
\* event loop of its own until it is closed.  That loop takes the oldest
\* posted event and runs its slot; the slot of an error is show_camera_error
\* again, which opens one more message box on top.
DialogDeliver ==
    /\ gpc = "dialog"
    /\ queue # <<>>
    /\ delivered' = Append(delivered, SlotRun(Head(queue), FALSE))
    /\ queue' = Tail(queue)
    /\ dialogs' = IF Head(queue).kind = "error" THEN dialogs + 1 ELSE dialogs
    /\ UNCHANGED <<camera_thread, objvars, caps, gvars, stopped, start_ok,
                   scanvars, widgets, gui, handle_error>>

\* The topmost message box is closed and its show_camera_error goes on,
\* lines 624-632.  setChecked(False) of line 625 on a checked button runs
\* toggle_stream(False); when its stop_stream finds the thread running it
\* calls stop_streaming, and the rest follows in ShowCameraErrorReturn.
\* Otherwise show_camera_error returns: to the message box below, or into
\* the emit of line 35 (start_streaming returns False), or to the event
\* loop of the application.  Inside the emit of line 35 camera_thread is the
\* CameraThread that is being started, so it is not running.
DialogClose ==
    /\ gpc = "dialog"
    /\ IF checked /\ camera_thread # None /\ isRunning(camera_thread)
       THEN /\ checked' = FALSE
            /\ StopStreamingCall(camera_thread)
            /\ gctx' = "stop_stream"
            /\ UNCHANGED <<ret, start_ok, is_streaming, text, led, enabled,
                           gui, dialogs>>
       ELSE /\ ShowCameraError
            /\ dialogs' = dialogs - 1
            /\ UNCHANGED running
            /\ IF dialogs > 1
               THEN UNCHANGED <<gvars, gui, ret, start_ok>>
               ELSE IF gui = "toggle_on"
               THEN /\ Return("False")
                    /\ UNCHANGED <<gobj, gheld>>
               ELSE /\ gpc' = "idle"
                    /\ gui' = "none"
                    /\ UNCHANGED <<gobj, gctx, gheld, ret, start_ok>>
    /\ UNCHANGED <<camera_thread, cap, connected, tstate, tpc, exitwhy, caps,
                   sigvars, stopped, scanvars, handle_error>>

\* show_camera_error, lines 625-632 (and lines 484-492 of the
\* toggle_stream(False) inside it), after stop_stream has returned; then
\* back to the message box below, or to the event loop of the application.
ShowCameraErrorReturn ==
    /\ gpc = "idle"
    /\ gui = "show_camera_error"
    /\ ShowCameraError
    /\ dialogs' = dialogs - 1
    /\ gpc' = IF dialogs > 1 THEN "dialog" ELSE "idle"
    /\ gui' = IF dialogs > 1 THEN gui ELSE "none"
    /\ UNCHANGED <<camera_thread, objvars, caps, sigvars, gobj, gctx, gheld,
                   stopped, start_ok, scanvars, handle_error>>

----------------------------------------------------------------------------

Acquire ==
    \E o \in Objects : Loop(o) \/ Read(o) \/ ReleaseAtExit(o) \/ Clear(o) \/ Exit(o)

\* The application.  Every CameraThread is new when start_streaming is
\* called on it, so its cap is None at line 30 and line 31 (SsRelease) is
\* never reached.
Next ==
    \/ StartStream
    \/ NewThread
    \/ StopStream
    \/ StopWait
    \/ StopReturn
    \/ SsCheck
    \/ SsOpen
    \/ SsAssign
    \/ SsIsOpened
    \/ SsSet
    \/ SsStart
    \/ Deliver
    \/ Acquire

Spec ==
    Init /\ [][Next]_vars

NextApi ==
    \/ ApiStartStreaming
    \/ ApiStopStreaming
    \/ StopWait
    \/ StopReturn
    \/ SsCheck
    \/ SsRelease
    \/ SsOpen
    \/ SsAssign
    \/ SsIsOpened
    \/ SsSet
    \/ SsStart
    \/ Acquire

SpecApi ==
    InitApi /\ [][NextApi]_vars

\* One CameraThread on a source that may yield frames without end.  The
\* acquisition thread is scheduled and every read returns; wait() returns
\* once the thread has finished.
AcquireLive ==
    \E o \in Objects :
       Loop(o) \/ Read(o) \/ ReadOn(o) \/ ReleaseAtExit(o) \/ Clear(o) \/ Exit(o)

NextLive ==
    \/ ApiStartStreaming
    \/ ApiStopStreaming
    \/ StopWait
    \/ StopReturn
    \/ SsCheck
    \/ SsRelease
    \/ SsOpen
    \/ SsAssign
    \/ SsIsOpened
    \/ SsSet
    \/ SsStart
    \/ AcquireLive

SpecLive ==
    /\ InitApi
    /\ [][NextLive]_vars
    /\ WF_vars(AcquireLive)
    /\ WF_vars(StopWait)

\* get_available_cameras alone, called again and again; any of the probed
\* devices may exist.
NextScan ==
    \/ ApiGetAvailableCameras
    \/ ScanOpen(ProbeRange)
    \/ ScanCheck
    \/ ScanReturn

SpecScan ==
    Init /\ [][NextScan]_vars

\* The application with its window: start_stream and stop_stream are
\* called by toggle_stream, the error slot is show_camera_error, and only
\* the devices 0 .. MaxDevices - 1 exist.
NextUi ==
    \/ ScanAndUpdateCameras
    \/ ScanOpen(MaxDevices)
    \/ ScanCheck
    \/ ScanUpdate
    \/ ToggleOn
    \/ ToggleOnReturn
    \/ ToggleOff
    \/ ToggleOffReturn
    \/ DeliverWin
    \/ DialogDeliver
    \/ DialogClose
    \/ ShowCameraErrorReturn
    \/ NewThread
    \/ StopWait
    \/ StopReturn
    \/ SsCheck
    \/ SsOpen
    \/ SsAssign
    \/ SsIsOpened
    \/ SsSet
    \/ SsStart
    \/ Acquire

SpecUi ==
    InitUi /\ [][NextUi]_vars

----------------------------------------------------------------------------
\* Sanity of the model

TypeOK ==
    /\ camera_thread \in {None} \cup Objects
    /\ \A o \in Objects :
          /\ running[o] \in BOOLEAN
          /\ cap[o] \in {None} \cup DOMAIN caps
          /\ connected[o] \in BOOLEAN
          /\ tstate[o] \in {"notstarted", "running", "finished"}
          /\ tpc[o] \in {"none", "loop", "read", "tail", "clear", "exit"}
          /\ exitwhy[o] \in {"none", "stop", "error", "nocap"}
          /\ ret[o] \in {"none", "True", "False", "raised"}
    /\ gpc \in {"idle", "new", "st_wait", "st_ret", "ss_check", "ss_release",
                "ss_open", "ss_assign", "ss_isopened", "ss_set", "ss_start",
                "sc_open", "sc_check", "sc_ret", "dialog"}
    /\ StoppedObjs \subseteq Objects
    /\ si \in 0..ProbeRange
    /\ Len(probes) <= ProbeRange
    /\ is_streaming \in BOOLEAN
    /\ checked \in BOOLEAN
    /\ enabled \in BOOLEAN
    /\ text \in {"Start Camera", "Stop Camera"}
    /\ led \in {"red", "green"}
    /\ gui \in {"none", "toggle_on", "toggle_off", "show_camera_error", "scan"}
    /\ handle_error \in {"handle_error", "show_camera_error"}
    /\ dialogs \in 0..MaxObjs
    /\ (gpc = "dialog") => dialogs > 0

\* run() never reads a frame through a None reference (line 56).
ReadHasCap ==
    \A o \in Objects : tpc[o] = "read" => cap[o] # None

----------------------------------------------------------------------------
\* Properties

\* The captures that are open.
OpenCaps ==
    {h \in DOMAIN caps : caps[h].open}

\* The captures CameraThread o has created.
CapsOf(o) ==
    {h \in DOMAIN caps : caps[h].owner = o}

\* C1: once stop_streaming of a CameraThread has returned, no slot runs any
\* more for a frame or error notification of that CameraThread.
C1_NoDeliveryAfterStop ==
    \A i \in DOMAIN delivered : ~delivered[i].late

\* C2: at most one capture opened by a CameraThread is open at any instant,
\* whatever start_streaming and stop_streaming calls are made on it.
C2_AtMostOneOpenCapture ==
    \A o \in Objects : Cardinality(OpenCaps \cap CapsOf(o)) <= 1

\* C3: when start_stream creates the capture of a new session, the thread
\* of every earlier session has exited and its captures are released; so
\* never are two acquisition threads running or two sessions' captures open.
C3_PreviousSessionStoppedFirst ==
    /\ Cardinality({o \in Objects : isRunning(o)}) <= 1
    /\ Cardinality(OpenCaps) <= 1
    /\ \A o1 \in Objects, o2 \in Objects :
          (o1 < o2 /\ CapsOf(o2) # {}) =>
             /\ ~isRunning(o1)
             /\ OpenCaps \cap CapsOf(o1) = {}

\* A start on a session whose source is open and whose thread runs: line 31
\* has released the capture and line 32 has opened the next.
C2_Witness ==
    /\ gpc = "ss_assign"
    /\ cap[gobj] # None
    /\ caps[cap[gobj]].ok
    /\ caps[cap[gobj]].rel = 1
    /\ isRunning(gobj)
    /\ tpc[gobj] \in {"loop", "read"}
    /\ caps[Len(caps)].open

\* A second session has its capture open, and the first was stopped by
\* start_stream itself after its source had been opened.
C3_Witness ==
    \E r \in stopped :
       /\ r.by = "start_stream"
       /\ \E h \in CapsOf(r.o) : caps[h].ok
       /\ \E h \in OpenCaps : caps[h].owner > r.o

\* The slot runs for notifications of CameraThread o, oldest first.
SeenBy(o) ==
    LET Test(d) == d.o = o IN SelectSeq(delivered, Test)

\* The notifications of CameraThread o that are posted and not yet taken.
Pending(o) ==
    LET Test(e) == e.o = o IN SelectSeq(queue, Test)

\* The notification a slot run was for.
AsEvent(d) ==
    [o |-> d.o, kind |-> d.kind, n |-> d.n]

\* What the consumer has observed of CameraThread o, oldest first.
Observed(o) ==
    [i \in 1..Len(SeenBy(o)) |-> AsEvent(SeenBy(o)[i])]

\* Every notification CameraThread o has emitted: those observed, then
\* those still posted.
Stream(o) ==
    Observed(o) \o Pending(o)

ErrorCount(o) ==
    Cardinality({i \in DOMAIN Stream(o) : Stream(o)[i].kind = "error"})

\* The frames among the notifications s.
Frames(s) ==
    LET Test(e) == e.kind = "frame" IN SelectSeq(s, Test)

\* The number of frames the captures 1..k of CameraThread o have yielded.
RECURSIVE ReadUpTo(_, _)
ReadUpTo(o, k) ==
    IF k = 0 THEN 0
    ELSE ReadUpTo(o, k - 1) + (IF caps[k].owner = o THEN caps[k].nread ELSE 0)

\* The number of reads of CameraThread o that succeeded.
NRead(o) ==
    ReadUpTo(o, Len(caps))

\* n frames in read order, then the error.
FramesThenError(o, n) ==
    [i \in 1..(n + 1) |-> IF i <= n THEN FrameEv(o, i) ELSE ErrorEv(o)]

IsPrefix(s, u) ==
    /\ Len(s) <= Len(u)
    /\ \A i \in 1..Len(s) : s[i] = u[i]

\* C4: a start_streaming whose source cannot be opened returns False, does
\* not start the acquisition thread and leaves the running flag False.
C4_FailedOpenLeavesIdle ==
    \A h \in DOMAIN caps :
       ~caps[h].ok =>
          LET o == caps[h].owner IN
          /\ ~running[o]
          /\ tstate[o] = "notstarted"
          /\ IF gobj = o /\ gpc \in {"ss_assign", "ss_isopened"}
             THEN ret[o] = "none"
             ELSE ret[o] = "False"

\* start_streaming has returned False.
C4_Witness ==
    \E o \in Objects : ret[o] = "False" /\ gpc = "idle" /\ ~caps[cap[o]].ok

\* C5, as claimed: when start_streaming fails to open the source, the error
\* consumer is not run for that session.
C5_NoErrorOnFailedOpen ==
    \A o \in Objects :
       ret[o] = "False" => \A i \in DOMAIN Stream(o) : Stream(o)[i].kind # "error"

\* C5, amended: when start_streaming fails to open the source, the error
\* consumer has run exactly once when start_streaming returns False, inside
\* the emit of line 35; no thread is started and nothing is posted.
C5_FailedOpenRunsErrorConsumerOnce ==
    \A o \in Objects :
       ret[o] = "False" =>
          /\ Observed(o) = <<ErrorEv(o)>>
          /\ SeenBy(o)[1].direct
          /\ Pending(o) = <<>>
          /\ tstate[o] = "notstarted"

\* The error consumer has run for a start that failed.
C5_Witness ==
    \E o \in Objects :
       /\ ret[o] = "False"
       /\ \E i \in DOMAIN delivered : delivered[i].o = o /\ delivered[i].direct

\* C6: a session emits error_occurred at most once; exactly once when its
\* loop was left because a read failed, not at all when the loop was left
\* because the condition of line 55 was false.
C6_ErrorAtMostOnce ==
    \A o \in Objects :
       /\ ErrorCount(o) <= 1
       /\ exitwhy[o] = "error" => ErrorCount(o) = 1
       /\ exitwhy[o] \in {"stop", "nocap"} => ErrorCount(o) = 0

\* One thread has ended on a failed read, another on a stop request.
C6_Witness ==
    \E o1 \in Objects, o2 \in Objects :
       /\ exitwhy[o1] = "error" /\ tstate[o1] = "finished"
       /\ exitwhy[o2] = "stop" /\ tstate[o2] = "finished"

\* C7: when n reads succeed and the next fails, the notifications of the
\* session are the n frames in read order and then one error; the consumer
\* observes a prefix of that, and all of it once nothing is posted any more.
C7_FramesThenError ==
    \A o \in Objects :
       exitwhy[o] = "error" =>
          /\ Stream(o) = FramesThenError(o, NRead(o))
          /\ IsPrefix(Observed(o), FramesThenError(o, NRead(o)))
          /\ Pending(o) = <<>> => Observed(o) = FramesThenError(o, NRead(o))

\* The consumer has observed two frames and then the error.
C7_Witness ==
    \E o \in Objects :
       /\ exitwhy[o] = "error"
       /\ NRead(o) = 2
       /\ Pending(o) = <<>>
       /\ Len(Observed(o)) = 3
       /\ Observed(o)[3].kind = "error"

\* C8: the consumer observes the frames of a session in read order, each
\* once: the i-th frame it observes is the i-th frame read, and none is
\* missing once no frame is posted any more.
C8_DeliveryInReadOrder ==
    \A o \in Objects :
       LET fs == Frames(Observed(o)) IN
       /\ \A i \in DOMAIN fs : fs[i].n = i
       /\ Len(fs) <= NRead(o)
       /\ Frames(Pending(o)) = <<>> => Len(fs) = NRead(o)

\* The consumer has observed two frames of a session that reads on.
C8_Witness ==
    \E o \in Objects :
       /\ Len(Frames(Observed(o))) = 2
       /\ isRunning(o)
       /\ exitwhy[o] = "none"

\* C9: when stop_streaming returns, the acquisition thread has exited, cap
\* is None and no capture of the CameraThread is open.
C9_StopReturnsTornDown ==
    gpc = "st_ret" =>
       /\ ~isRunning(gobj)
       /\ cap[gobj] = None
       /\ OpenCaps \cap CapsOf(gobj) = {}
       /\ gheld # None => ~caps[gheld].open

\* stop_streaming returns after it was called on a thread holding an opened
\* capture.
C9_Witness ==
    /\ gpc = "st_ret"
    /\ gheld # None
    /\ caps[gheld].ok
    /\ tstate[gobj] = "finished"

\* C10: a capture that was opened is released by at most one release()
\* call, and by exactly one once it is closed.
C10_ReleasedExactlyOnce ==
    \A h \in DOMAIN caps :
       caps[h].ok =>
          /\ caps[h].rel <= 1
          /\ ~caps[h].open => caps[h].rel = 1

\* C11: when stop_streaming is called on a started session before any read
\* of its loop has returned, the session produces no notification: none
\* has been produced so far, and none is produced while stop_streaming
\* waits for the thread.
C11_NoNotificationWhenStoppedEarly ==
    [][(gpc = "st_wait" /\ ret[gobj] = "True" /\ Stream(gobj) = <<>>)
          => Stream(gobj)' = <<>>]_vars

\* C12: when stop_streaming is called and every read returns, the loop is
\* left at its next test of line 55 (no further read is begun), the thread
\* exits and stop_streaming returns, also on a source that never runs dry.
C12_StopEventuallyReturns ==
    /\ (gpc = "st_wait") ~> (gpc = "st_ret" /\ ~isRunning(gobj))
    /\ [][(gpc = "st_wait" /\ tpc[gobj] = "loop") => tpc[gobj]' # "read"]_vars

\* stop_streaming returns after it was called on a thread that had read all
\* the counted frames of its source and was still reading.
C12_Witness ==
    /\ gpc = "st_ret"
    /\ exitwhy[gobj] = "stop"
    /\ gheld # None
    /\ caps[gheld].nread = MaxFrames

\* A session that is not running: its thread was never started or has
\* finished, and it holds no open capture.
NotRunning(o) ==
    /\ ~isRunning(o)
    /\ cap[o] = None \/ ~isOpened(cap[o])

\* A session in the state stop_streaming leaves behind.
Idle(o) ==
    /\ ~isRunning(o)
    /\ ~running[o]
    /\ cap[o] = None

\* A step of stop_streaming: the call (lines 47-48), or the return of
\* wait() with lines 49-51.
StopStep ==
    \/ gpc = "idle" /\ gpc' = "st_wait"
    \/ gpc = "st_wait" /\ gpc' = "st_ret"

\* C13: stop_streaming on a session that is not running does not wait,
\* posts and delivers nothing, starts no thread and opens or closes no
\* capture, and leaves the session idle; on a session that is idle already
\* (a second stop) it changes nothing at all.
C13_StopIdempotent ==
    /\ [](gpc = "st_wait" /\ NotRunning(gobj) => ENABLED StopWait)
    /\ [][(StopStep /\ NotRunning(gobj')) =>
             /\ UNCHANGED <<tstate, tpc, sigvars>>
             /\ OpenCaps' = OpenCaps
             /\ ~running'[gobj']
             /\ gpc' = "st_ret" => Idle(gobj)']_vars
    /\ [][(StopStep /\ Idle(gobj')) => UNCHANGED <<objvars, caps, sigvars>>]_vars

\* stop_streaming returns after it was called on a session that had failed:
\* the thread had left its loop on a failed read and cleared cap.
C13_Witness ==
    /\ gpc = "st_ret"
    /\ gheld = None
    /\ exitwhy[gobj] = "error"
    /\ Idle(gobj)

\* The probe captures that are open.
OpenProbes ==
    {h \in DOMAIN probes : probes[h].open}

\* The indices whose probe, among the first k, opened.
Opened(k) ==
    {probes[h].index : h \in {j \in 1..k : probes[j].ok}}

\* C14: a probe capture that opened is closed, by release(), before the
\* next index is probed and before get_available_cameras returns; so at
\* most one is open at a time and none when the scan has returned.
C14_ProbeClosedBeforeNext ==
    /\ Cardinality(OpenProbes) <= 1
    /\ gpc \in {"sc_open", "sc_ret", "idle"} => OpenProbes = {}
    /\ \A h \in DOMAIN probes :
          (probes[h].ok /\ ~probes[h].open) => probes[h].rel = 1

\* The scan has returned; six of the ten probes had opened, among them two
\* of neighbouring indices, and four had not.
C14_Witness ==
    /\ gpc = "idle"
    /\ Len(probes) = ProbeRange
    /\ Cardinality(Opened(ProbeRange)) = 6
    /\ probes[4].ok /\ probes[5].ok
    /\ ~probes[1].ok

\* C15: the list holds exactly the indices whose probe opened, in ascending
\* order and each once; when get_available_cameras returns it has probed
\* the indices 0 .. 9 in that order, so the list it returns is the openable
\* indices of 0 .. 9, the empty list when there is none.
C15_AscendingOpenable ==
    /\ {found[j] : j \in DOMAIN found} = Opened(si)
    /\ \A j \in DOMAIN found, k \in DOMAIN found : j < k => found[j] < found[k]
    /\ \A h \in DOMAIN probes : probes[h].index = h - 1
    /\ (gpc \in {"sc_ret", "idle"} /\ probes # <<>>) =>
          /\ si = ProbeRange
          /\ Len(probes) = ProbeRange

\* The scan has returned the list 0, 2, 9.
C15_Witness ==
    /\ gpc = "idle"
    /\ found = <<0, 2, 9>>
    /\ Opened(ProbeRange) = {0, 2, 9}

\* C16: when toggle_stream(True) has returned from a start whose source
\* could not be opened, start_stream has reported the failure and the window
\* is in the stopped state: is_streaming False, the button unchecked and
\* reading Start Camera, the indicator red.
C16_FailedStartLeavesWindowStopped ==
    (/\ gpc = "idle"
     /\ gui = "none"
     /\ camera_thread # None
     /\ ret[camera_thread] = "False") =>
       /\ start_ok = "False"
       /\ ~is_streaming
       /\ ~checked
       /\ text = "Start Camera"
       /\ led = "red"

\* C17: whenever the window is idle and the session's thread is running,
\* also after scan_and_update_cameras has run in between, the stream button
\* is enabled, so that a click can reach toggle_stream(False).
C17_RunningSessionStoppable ==
    (/\ gpc = "idle"
     /\ gui = "none"
     /\ camera_thread # None
     /\ isRunning(camera_thread)) => enabled

====
